---- MODULE Spec2Model ----
(***************************************************************************)
(* jsin: inference of a schematic tree from decoded JSON values.           *)
(* The node algebra (schematic_tree_nodes.py), the classifier and the tree *)
(* builder (infer.py) and the located errors (jsin_error.py).              *)
(*                                                                         *)
(* A Python value is a record tagged by its type in field py, a schematic  *)
(* tree node a record tagged by its SchematicTreeNodeType in field t, a    *)
(* raised exception a record with field exc.  A call either returns a      *)
(* value or raises; an operator that models a call yields the returned     *)
(* value or the exception record.                                          *)
(***************************************************************************)
EXTENDS Integers, Sequences, FiniteSets

VARIABLES obj, t, node, lhs, rhs, result, converted, tree, name, yielded

vars == <<obj, t, node, lhs, rhs, result, converted, tree, name, yielded>>

(***************************************************************************)
(* Bounds of the model.                                                    *)
(***************************************************************************)
\* longest array among the inputs
MaxLen == 2
\* most fields of an object among the inputs
MaxFields == 2
\* deepest nesting of the enclosing objects / arrays put around an input
MaxNest == 2
\* largest occurrence count of a string in a StringNode operand
MaxCount == 2

\* the field names and the strings of the inputs
Keys == {"a", "b", "c"}
Strs == {"s", "t"}

\* a call that has not been made yet
Pending == [pending |-> TRUE]

(***************************************************************************)
(* Exceptions                                                              *)
(***************************************************************************)
Raised(r) == "exc" \in DOMAIN r

\* TypeError raised by the interpreter: unsupported operand types for +,
\* or an except clause that names something that is no exception class
TypeError == [exc |-> "TypeError"]

\* the special value a binary method returns to decline its operand
NotImplemented == [notimplemented |-> TRUE]

JsinError(kind) == [exc |-> kind, loc |-> <<>>]

UnrecognizableTypeError == JsinError("UnrecognizableTypeError")

IncompatibleNodesError == JsinError("IncompatibleNodesError")

\* a faulty variant: the segment is put after the location, not before it
under_appended(e, parent_loc) == [exc |-> e.exc, loc |-> e.loc \o <<parent_loc>>]

under(e, parent_loc) == [exc |-> e.exc, loc |-> <<parent_loc>> \o e.loc]

(***************************************************************************)
(* Schematic tree nodes                                                    *)
(***************************************************************************)
AnyNode == [t |-> "ANY"]

NullNode == [t |-> "NULL"]

BooleanNode == [t |-> "BOOLEAN"]

NumberNode(contains_float) == [t |-> "NUMBER", contains_float |-> contains_float]

\* counter: a function from the strings seen to their positive counts
StringNode(counter) == [t |-> "STRING", counter |-> counter]

\* fields: a function from the field names to <<node, optional, nullable>>
ObjectNode(fields) == [t |-> "OBJECT", fields |-> fields]

ArrayNode(value_node) == [t |-> "ARRAY", value_node |-> value_node]

KeyIndexedArrayNode(keys, value_node) ==
    [t |-> "KEY_INDEXED_ARRAY", keys |-> keys, value_node |-> value_node]

\* collections.Counter.__add__: add the counts, keep the positive ones
CounterAdd(c, d) ==
    LET count(f, k) == IF k \in DOMAIN f THEN f[k] ELSE 0
        total == [k \in DOMAIN c \cup DOMAIN d |-> count(c, k) + count(d, k)]
    IN  [k \in {x \in DOMAIN total : total[x] > 0} |-> total[k]]

to_object_node(self) ==
    LET nullable == self.value_node.t = "NULL"
    IN  ObjectNode([key \in self.keys |-> <<self.value_node, FALSE, nullable>>])

RECURSIVE Add(_, _)

SingletonNode__add__(self, other) ==
    IF other = self THEN self ELSE NotImplemented

AnyNode__add__(self, other) == other

AnyNode__radd__(self, other) == other

NullNode__add__(self, other) ==
    IF other.t = "ANY" THEN self ELSE other

NullNode__radd__(self, other) ==
    IF other.t = "ANY" THEN self ELSE other

\* a faulty variant: the flags are conjoined
NumberNodeAndFlags__add__(self, other) ==
    IF other.t = "NUMBER"
    THEN NumberNode(self.contains_float /\ other.contains_float)
    ELSE NotImplemented

NumberNode__add__(self, other) ==
    IF other.t = "NUMBER"
    THEN NumberNode(self.contains_float \/ other.contains_float)
    ELSE NotImplemented

StringNode__add__(self, other) ==
    IF other.t = "STRING"
    THEN StringNode(CounterAdd(self.counter, other.counter))
    ELSE NotImplemented

\* a faulty variant: a field of one operand only keeps its optional flag
ObjectNodeKeepOptional__add__(self, other) ==
    IF other.t # "OBJECT" THEN NotImplemented
    ELSE
    LET mine == DOMAIN self.fields
        theirs == DOMAIN other.fields
        both == mine \cap theirs
        added == [key \in both |-> Add(self.fields[key][1], other.fields[key][1])]
    IN  IF \E key \in both : Raised(added[key]) THEN TypeError
        ELSE ObjectNode([key \in mine \cup theirs |->
                IF key \in both
                THEN <<added[key],
                       self.fields[key][2] \/ other.fields[key][2],
                       self.fields[key][3] \/ other.fields[key][3]>>
                ELSE IF key \in mine
                THEN self.fields[key]
                ELSE other.fields[key]])

ObjectNode__add__(self, other) ==
    IF other.t # "OBJECT" THEN NotImplemented
    ELSE
    LET mine == DOMAIN self.fields
        theirs == DOMAIN other.fields
        both == mine \cap theirs
        \* value[0] + other[key][0]; an exception leaves the method
        added == [key \in both |-> Add(self.fields[key][1], other.fields[key][1])]
    IN  IF \E key \in both : Raised(added[key]) THEN TypeError
        ELSE ObjectNode([key \in mine \cup theirs |->
                IF key \in both
                THEN <<added[key],
                       self.fields[key][2] \/ other.fields[key][2],
                       self.fields[key][3] \/ other.fields[key][3]>>
                ELSE IF key \in mine
                THEN <<self.fields[key][1], TRUE, self.fields[key][3]>>
                ELSE <<other.fields[key][1], TRUE, other.fields[key][3]>>])

ArrayNode__add__(self, other) ==
    IF other.t = "ARRAY"
    THEN LET value_node == Add(self.value_node, other.value_node)
         IN  IF Raised(value_node) THEN TypeError ELSE ArrayNode(value_node)
    ELSE NotImplemented

\* The handler "except NotImplementedError():" names an instance, not a class:
\* when the addition of the value nodes raises, matching the handler raises
\* TypeError, so the fall back below the handler is reached only by an operand
\* that is no KeyIndexedArrayNode.
KeyIndexedArrayNode__add__(self, other) ==
    IF other.t = "KEY_INDEXED_ARRAY"
    THEN LET value_node == Add(self.value_node, other.value_node)
         IN  IF Raised(value_node) THEN TypeError
             ELSE KeyIndexedArrayNode(self.keys \cup other.keys, value_node)
    ELSE Add(to_object_node(self), other)

\* type(a).__add__(a, b)
Dunder__add__(a, b) ==
    CASE a.t = "ANY" -> AnyNode__add__(a, b)
      [] a.t = "NULL" -> NullNode__add__(a, b)
      [] a.t = "BOOLEAN" -> SingletonNode__add__(a, b)
      [] a.t = "NUMBER" -> NumberNode__add__(a, b)
      [] a.t = "STRING" -> StringNode__add__(a, b)
      [] a.t = "OBJECT" -> ObjectNode__add__(a, b)
      [] a.t = "ARRAY" -> ArrayNode__add__(a, b)
      [] a.t = "KEY_INDEXED_ARRAY" -> KeyIndexedArrayNode__add__(a, b)

\* type(b).__radd__(b, a): only AnyNode and NullNode define it
Dunder__radd__(b, a) ==
    CASE b.t = "ANY" -> AnyNode__radd__(b, a)
      [] b.t = "NULL" -> NullNode__radd__(b, a)
      [] OTHER -> NotImplemented

\* The expression a + b: a's __add__, then, when that declines and the operands
\* are of different types, b's __radd__; TypeError when both decline.
Add(a, b) ==
    LET r == Dunder__add__(a, b)
    IN  IF r # NotImplemented THEN r
        ELSE IF a.t = b.t THEN TypeError
        ELSE LET rr == Dunder__radd__(b, a)
             IN  IF rr # NotImplemented THEN rr ELSE TypeError

\* the builtin sum(iterable, start=start): a left fold of +
RECURSIVE sum(_, _)
sum(iterable, start) ==
    IF iterable = <<>> THEN start
    ELSE LET r == Add(start, Head(iterable))
         IN  IF Raised(r) THEN r ELSE sum(Tail(iterable), r)

(***************************************************************************)
(* Decoded JSON values, as the Python objects json.loads returns, and one  *)
(* object of a type JSON does not know.                                    *)
(***************************************************************************)
PyNone == [py |-> "NoneType"]

PyBool(b) == [py |-> "bool", b |-> b]

PyInt(i) == [py |-> "int", i |-> i]

\* the float whole + tenths / 10
PyFloat(whole, tenths) == [py |-> "float", whole |-> whole, tenths |-> tenths]

PyStr(s) == [py |-> "str", s |-> s]

\* items: the sequence of the elements
PyList(items) == [py |-> "list", items |-> items]

\* pairs: the sequence of <<key, value>> in insertion order, the keys distinct
PyDict(pairs) == [py |-> "dict", pairs |-> pairs]

PyComplex == [py |-> "complex"]

Return(value) == [ret |-> value]

\* JsonPrimitiveType.tell: in the bool branch "t = cls.FALSE" follows the
\* "if obj:" statement unconditionally
tell(o) ==
    CASE o.py = "NoneType" -> Return("NULL")
      [] o.py = "bool" -> Return("FALSE")
      [] o.py \in {"int", "float"} -> Return("NUMBER")
      [] o.py = "str" -> Return("STRING")
      [] o.py = "dict" -> Return("OBJECT")
      [] o.py = "list" -> Return("ARRAY")
      [] OTHER -> UnrecognizableTypeError

\* the index of the first child whose inference raised, 0 when none did
FirstRaised(children) ==
    LET bad == {i \in 1..Len(children) : Raised(children[i])}
    IN  IF bad = {} THEN 0 ELSE CHOOSE i \in bad : \A j \in bad : i <= j

\* case ARRAY, children the results of infer on the elements in order
infer_ARRAY(children) ==
    LET bad == FirstRaised(children)
    IN  IF bad # 0 THEN under(children[bad], "ARRAY_ELEMENT")
        ELSE LET value_node == sum(children, AnyNode)
             IN  IF Raised(value_node) THEN IncompatibleNodesError
                 ELSE ArrayNode(value_node)

\* a faulty variant: the failed attempt at a KeyIndexedArrayNode is not caught
infer_OBJECT_uncaught(names, children) ==
    LET bad == FirstRaised(children)
    IN  IF bad # 0 THEN under(children[bad], names[bad])
        ELSE LET value_node == sum(children, AnyNode)
             IN  IF Raised(value_node) THEN IncompatibleNodesError
                 ELSE KeyIndexedArrayNode({names[i] : i \in 1..Len(names)}, value_node)

\* case OBJECT, names the keys in insertion order and children the results of
\* infer on their values
infer_OBJECT(names, children) ==
    LET bad == FirstRaised(children)
        keys == {names[i] : i \in 1..Len(names)}
        at(key) == CHOOSE i \in 1..Len(names) : names[i] = key
        object_node == ObjectNode([key \in keys |->
            <<children[at(key)], FALSE, children[at(key)].t = "NULL">>])
    IN  IF bad # 0 THEN under(children[bad], names[bad])
        ELSE LET value_node == sum(children, AnyNode)
             IN  IF Raised(value_node) THEN object_node
                 ELSE KeyIndexedArrayNode(keys, value_node)

RECURSIVE infer(_)
infer(o) ==
    LET kind == tell(o)
    IN  IF Raised(kind) THEN kind
        ELSE CASE kind.ret = "NULL" -> NullNode
               [] kind.ret \in {"TRUE", "FALSE"} -> BooleanNode
               [] kind.ret = "NUMBER" -> NumberNode(o.py = "float")
               [] kind.ret = "STRING" -> StringNode([s \in {o.s} |-> 1])
               [] kind.ret = "ARRAY" ->
                    infer_ARRAY([i \in 1..Len(o.items) |-> infer(o.items[i])])
               [] kind.ret = "OBJECT" ->
                    infer_OBJECT([i \in 1..Len(o.pairs) |-> o.pairs[i][1]],
                                 [i \in 1..Len(o.pairs) |-> infer(o.pairs[i][2])])

(***************************************************************************)
(* The inputs                                                              *)
(***************************************************************************)
SeqsUpTo(S, n) == UNION {[1..k -> S] : k \in 0..n}

Distinct(s) == \A i, j \in 1..Len(s) : i # j => s[i] # s[j]

Scalars ==
    {PyNone, PyBool(TRUE), PyBool(FALSE), PyInt(1), PyFloat(1, 0), PyFloat(1, 5),
     PyStr("s"), PyStr("t"), PyComplex}

ScalarLists == {PyList(items) : items \in SeqsUpTo(Scalars, MaxLen)}

\* the rows of a table: the columns in one order, some of them missing
KeyOrder == <<"a", "b", "c">>

RowVals == {PyNone, PyInt(1), PyStr("s")}

RECURSIVE Ascending(_)
Ascending(I) ==
    IF I = {} THEN <<>>
    ELSE LET m == CHOOSE x \in I : \A y \in I : x <= y
         IN  <<m>> \o Ascending(I \ {m})

Rows ==
    UNION {{PyDict([j \in 1..Cardinality(I) |->
                      <<KeyOrder[Ascending(I)[j]], vals[Ascending(I)[j]]>>]) :
              vals \in [I -> RowVals]} :
           I \in {J \in SUBSET (1..Len(KeyOrder)) : Cardinality(J) <= MaxFields}}

\* the elements of an array of rows: the rows and null
RowElems == Rows \cup {PyNone}

\* objects with their keys in any order and values of every type
ObjVals ==
    Scalars \cup
    {PyList(<<>>), PyList(<<PyInt(1)>>), PyList(<<PyInt(1), PyStr("s")>>),
     PyDict(<<>>), PyDict(<<<<"a", PyInt(1)>>>>),
     PyDict(<<<<"a", PyInt(1)>>, <<"b", PyStr("s")>>>>)}

KeySeqs == {s \in SeqsUpTo(Keys, MaxFields) : Distinct(s)}

\* a value inside single-field objects and one-element arrays
Segments == {"a", "b", "ARRAY_ELEMENT"}

RECURSIVE Wrap(_, _)
Wrap(path, value) ==
    IF path = <<>> THEN value
    ELSE LET inner == Wrap(Tail(path), value)
         IN  IF Head(path) = "ARRAY_ELEMENT" THEN PyList(<<inner>>)
             ELSE PyDict(<<<<Head(path), inner>>>>)

Paths == SeqsUpTo(Segments, MaxNest)

(***************************************************************************)
(* A client classifies a decoded value and infers its schematic tree.      *)
(***************************************************************************)
Start(o) ==
    /\ obj = o
    /\ t = Pending
    /\ node = Pending
    /\ lhs = Pending
    /\ rhs = Pending
    /\ result = Pending
    /\ converted = Pending
    /\ tree = Pending
    /\ name = Pending
    /\ yielded = Pending

\* The inputs: a scalar or an array of scalars inside single-field objects and
\* one-element arrays; an array of rows; an object with its keys in any order
\* and values of every type.
Init ==
    \/ \E path \in Paths : \E value \in Scalars \cup ScalarLists :
          Start(Wrap(path, value))
    \/ \E k \in 0..MaxLen : \E items \in [1..k -> RowElems] :
          Start(PyList(items))
    \/ \E names \in KeySeqs : \E vals \in [1..Len(names) -> ObjVals] :
          Start(PyDict([i \in 1..Len(names) |-> <<names[i], vals[i]>>]))

\* JsonPrimitiveType.tell(obj)
Tell ==
    /\ t = Pending
    /\ t' = tell(obj)
    /\ UNCHANGED <<obj, node, lhs, rhs, result, converted, tree, name, yielded>>

\* infer(obj)
Infer ==
    /\ node = Pending
    /\ node' = infer(obj)
    /\ UNCHANGED <<obj, t, lhs, rhs, result, converted, tree, name, yielded>>

Next == Tell \/ Infer

Spec == Init /\ [][Next]_vars

(***************************************************************************)
(* A client merges two nodes, and converts a KeyIndexedArrayNode.          *)
(* The operands are nodes that inference and merging produce: no field of  *)
(* an ObjectNode holds an AnyNode, a field that holds a NullNode is        *)
(* nullable, and a KeyIndexedArrayNode has no keys exactly when its        *)
(* value node is the AnyNode.                                              *)
(***************************************************************************)
FieldKeys == {"a", "b"}

Counters == UNION {[D -> 1..MaxCount] : D \in (SUBSET Strs) \ {{}}}

Prims ==
    {AnyNode, NullNode, BooleanNode, NumberNode(FALSE), NumberNode(TRUE)}
    \cup {StringNode(c) : c \in Counters}

FieldNodes ==
    {NullNode, NumberNode(FALSE), StringNode([s \in {"s"} |-> 1]),
     KeyIndexedArrayNode({"a"}, NumberNode(FALSE))}

Entries ==
    {e \in FieldNodes \X BOOLEAN \X BOOLEAN : e[1] = NullNode => e[3]}

Records == {ObjectNode(f) : f \in UNION {[K -> Entries] : K \in SUBSET FieldKeys}}

Containers ==
    {ArrayNode(AnyNode), ArrayNode(NumberNode(FALSE)),
     KeyIndexedArrayNode({}, AnyNode),
     KeyIndexedArrayNode({"a"}, NumberNode(FALSE)),
     ObjectNode([k \in {"a"} |-> <<NumberNode(FALSE), FALSE, FALSE>>])}

Arrays == {ArrayNode(e) : e \in Prims \cup Containers}

Maps ==
    {KeyIndexedArrayNode({}, AnyNode)} \cup
    {KeyIndexedArrayNode(K, e) :
        K \in (SUBSET FieldKeys) \ {{}}, e \in (Prims \ {AnyNode}) \cup Containers}

Nodes == Prims \cup Records \cup Arrays \cup Maps

InitMerge ==
    /\ obj = Pending
    /\ t = Pending
    /\ node = Pending
    /\ lhs \in Nodes
    /\ rhs \in Nodes
    /\ result = Pending
    /\ converted = Pending
    /\ tree = Pending
    /\ name = Pending
    /\ yielded = Pending

\* lhs + rhs
Merge ==
    /\ lhs # Pending
    /\ result = Pending
    /\ result' = Add(lhs, rhs)
    /\ UNCHANGED <<obj, t, node, lhs, rhs, converted, tree, name, yielded>>

\* lhs.to_object_node()
Convert ==
    /\ lhs # Pending
    /\ lhs.t = "KEY_INDEXED_ARRAY"
    /\ converted = Pending
    /\ converted' = to_object_node(lhs)
    /\ UNCHANGED <<obj, t, node, lhs, rhs, result, tree, name, yielded>>

NextMerge == Merge \/ Convert

SpecMerge == InitMerge /\ [][NextMerge]_vars

(***************************************************************************)
(* Properties of the node algebra, under SpecMerge                         *)
(***************************************************************************)
Merged == result # Pending

\* C1: AnyNode is a two-sided identity of +: Any + x and x + Any both return
\* a node equal to x in kind and attributes, for x of every kind.
C1_AnyIsIdentity ==
    Merged =>
        /\ lhs = AnyNode => result = rhs
        /\ rhs = AnyNode => result = lhs

\* C3: an ObjectNode and a KeyIndexedArrayNode merge in both operand orders,
\* to the merge of the ObjectNode with the converted KeyIndexedArrayNode
\* whenever that merge is defined; any other pair of different kinds, neither
\* of them Any or Null, fails.
C3_RecordMapInterconvert ==
    Merged =>
        /\ (/\ lhs.t = "OBJECT"
            /\ rhs.t = "KEY_INDEXED_ARRAY"
            /\ ~Raised(Add(lhs, to_object_node(rhs))))
           => result = Add(lhs, to_object_node(rhs))
        /\ (/\ lhs.t = "KEY_INDEXED_ARRAY"
            /\ rhs.t = "OBJECT"
            /\ ~Raised(Add(rhs, to_object_node(lhs))))
           => result = Add(rhs, to_object_node(lhs))
        /\ (/\ lhs.t # rhs.t
            /\ {lhs.t, rhs.t} \cap {"ANY", "NULL"} = {}
            /\ {lhs.t, rhs.t} # {"OBJECT", "KEY_INDEXED_ARRAY"})
           => Raised(result)

\* C4: Null + x and x + Null both return a node equal to x in kind and
\* attributes, for every x that is not Any; Null + Null is Null.
C4_NullAbsorption ==
    Merged =>
        /\ (lhs = NullNode /\ rhs # AnyNode) => result = rhs
        /\ (rhs = NullNode /\ lhs # AnyNode) => result = lhs

\* C10: the sum of two ObjectNodes has the union of their field names; a field
\* of both has the sum of the two nodes and the disjunction of the optional
\* and of the nullable flags; a field of one operand only is optional and keeps
\* its node and its nullable flag; the sum fails iff the sum of the nodes of
\* some shared field fails.
C10_RecordMerge ==
    (Merged /\ lhs.t = "OBJECT" /\ rhs.t = "OBJECT") =>
        LET a == lhs.fields
            b == rhs.fields
            shared == DOMAIN a \cap DOMAIN b
        IN  /\ Raised(result) <=> \E k \in shared : Raised(Add(a[k][1], b[k][1]))
            /\ ~Raised(result) =>
                /\ result.t = "OBJECT"
                /\ DOMAIN result.fields = DOMAIN a \cup DOMAIN b
                /\ \A k \in shared :
                      result.fields[k] =
                          <<Add(a[k][1], b[k][1]), a[k][2] \/ b[k][2], a[k][3] \/ b[k][3]>>
                /\ \A k \in DOMAIN a \ DOMAIN b :
                      result.fields[k] = <<a[k][1], TRUE, a[k][3]>>
                /\ \A k \in DOMAIN b \ DOMAIN a :
                      result.fields[k] = <<b[k][1], TRUE, b[k][3]>>

\* two records merged: a shared field whose flags differ, and a field of
\* each operand only that was not optional
C10_Witness ==
    /\ Merged
    /\ lhs.t = "OBJECT"
    /\ rhs.t = "OBJECT"
    /\ ~Raised(result)
    /\ DOMAIN lhs.fields = {"a", "b"}
    /\ DOMAIN rhs.fields = {"a"}
    /\ lhs.fields["a"][1] = NullNode
    /\ rhs.fields["a"] = <<NumberNode(FALSE), TRUE, FALSE>>
    /\ lhs.fields["b"][2] = FALSE
    /\ result.fields["b"][2] = TRUE

(***************************************************************************)
(* Properties of the classifier and of the tree builder, under Spec        *)
(***************************************************************************)
Told == t # Pending

Inferred == node # Pending

\* the nodes of the elements of an array, of the values of an object
ElementNodes(o) == [i \in 1..Len(o.items) |-> infer(o.items[i])]

ValueNodes(o) == [i \in 1..Len(o.pairs) |-> infer(o.pairs[i][2])]

NoneRaised(nodes) == \A i \in 1..Len(nodes) : ~Raised(nodes[i])

Reorderings(s) ==
    {[i \in 1..Len(s) |-> s[p[i]]] :
        p \in {q \in [1..Len(s) -> 1..Len(s)] : \A i, j \in 1..Len(s) : q[i] = q[j] => i = j}}

\* the outcomes of merging the nodes of s pairwise, in this order and in
\* every parenthesisation
RECURSIVE Groupings(_)
Groupings(s) ==
    IF Len(s) = 1 THEN {s[1]}
    ELSE UNION {{IF Raised(x) \/ Raised(y) THEN TypeError ELSE Add(x, y) :
                    x \in Groupings(SubSeq(s, 1, k)),
                    y \in Groupings(SubSeq(s, k + 1, Len(s)))} :
                k \in 1..(Len(s) - 1)}

\* C2: reduction by pairwise merge does not depend on the order nor on the
\* grouping: all permutations and parenthesisations fail, or all give equal
\* nodes; so the inference of an array fails or gives the same element node
\* whatever the order of its elements.
C2_OrderIndependent ==
    (/\ Inferred
     /\ obj.py = "list"
     /\ Len(obj.items) >= 1
     /\ NoneRaised(ElementNodes(obj)))
    => \A s \in Reorderings(ElementNodes(obj)) : \A r \in Groupings(s) :
          IF Raised(r) THEN Raised(node) ELSE node = ArrayNode(r)

\* C5: when the inference of an array of objects gives an ObjectNode as the
\* element node, every field that was null in one of the objects is nullable.
C5_NullabilityKept ==
    (/\ Inferred
     /\ obj.py = "list"
     /\ \A i \in 1..Len(obj.items) : obj.items[i].py = "dict"
     /\ ~Raised(node)
     /\ node.value_node.t = "OBJECT")
    => \A i \in 1..Len(obj.items) : \A j \in 1..Len(obj.items[i].pairs) :
          LET pair == obj.items[i].pairs[j]
          IN  pair[2] = PyNone =>
                /\ pair[1] \in DOMAIN node.value_node.fields
                /\ node.value_node.fields[pair[1]][3]

\* the elements of the array infer, and their nodes do not merge
ElementsClash(o) ==
    /\ NoneRaised(ElementNodes(o))
    /\ Raised(sum(ElementNodes(o), AnyNode))

\* C6: when the elements of an array do not merge, inference fails with
\* IncompatibleNodesError located at the keys from the root to the array
\* followed by "ARRAY_ELEMENT".
C6_ClashLocated ==
    Inferred =>
        \A path \in {p \in Paths : \A i \in 1..Len(p) : p[i] # "ARRAY_ELEMENT"} :
        \A array \in ScalarLists :
            (obj = Wrap(path, array) /\ ElementsClash(array)) =>
                node = [exc |-> "IncompatibleNodesError",
                        loc |-> path \o <<"ARRAY_ELEMENT">>]

\* the JSON kind of a decoded value
KindOf(o) ==
    CASE o.py = "NoneType" -> Return("NULL")
      [] o.py = "bool" -> IF o.b THEN Return("TRUE") ELSE Return("FALSE")
      [] o.py \in {"int", "float"} -> Return("NUMBER")
      [] o.py = "str" -> Return("STRING")
      [] o.py = "list" -> Return("ARRAY")
      [] o.py = "dict" -> Return("OBJECT")
      [] OTHER -> UnrecognizableTypeError

\* C7: tell maps null to NULL, true to TRUE, false to FALSE, a number to
\* NUMBER, a string to STRING, a sequence to ARRAY, a mapping to OBJECT, and
\* fails with UnrecognizableTypeError exactly on any other value.
C7_TellClassifies == Told => t = KindOf(obj)

\* C8: an object whose values all infer gives a KeyIndexedArrayNode, with the
\* keys of the object and the reduction of the value nodes from Any, iff that
\* reduction succeeds, and otherwise an ObjectNode with the keys of the object
\* as fields, each (node of the value, not optional, nullable iff that node
\* is Null); the clash of the values never makes the inference fail.
C8_MapPromotion ==
    (/\ Inferred
     /\ obj.py = "dict"
     /\ NoneRaised(ValueNodes(obj)))
    => LET n == Len(obj.pairs)
           values == ValueNodes(obj)
           reduced[k \in 0..n] ==
               IF k = 0 THEN AnyNode
               ELSE IF Raised(reduced[k - 1]) THEN reduced[k - 1]
               ELSE Add(reduced[k - 1], values[k])
           names == {obj.pairs[i][1] : i \in 1..n}
       IN  /\ ~Raised(node)
           /\ node.t = "KEY_INDEXED_ARRAY" <=> ~Raised(reduced[n])
           /\ node.t = "KEY_INDEXED_ARRAY" =>
                 /\ node.keys = names
                 /\ node.value_node = reduced[n]
           /\ node.t # "KEY_INDEXED_ARRAY" =>
                 /\ node.t = "OBJECT"
                 /\ DOMAIN node.fields = names
                 /\ \A i \in 1..n :
                       node.fields[obj.pairs[i][1]] =
                           <<values[i], FALSE, values[i] = NullNode>>

\* an object of a number and a string inferred as an ObjectNode
C8_Witness ==
    /\ Inferred
    /\ obj = PyDict(<<<<"a", PyInt(1)>>, <<"b", PyStr("s")>>>>)
    /\ node.t = "OBJECT"

IsNumber(o) == o.py \in {"int", "float"}

NonIntegral(o) == o.py = "float" /\ o.tenths # 0

IsFloat(o) == o.py = "float"

NumbersOnly(o) ==
    /\ o.py = "list"
    /\ Len(o.items) >= 1
    /\ \A i \in 1..Len(o.items) : IsNumber(o.items[i])

\* C9 as stated: the contains_float flag of a NumberNode is set iff one of
\* the numbers it summarises is non-integral (1.0 does not set it), for one
\* number and for the numbers of an array merged.
C9_FlagIffNonIntegral ==
    Inferred =>
        /\ IsNumber(obj) => node = NumberNode(NonIntegral(obj))
        /\ NumbersOnly(obj) =>
              node = ArrayNode(NumberNode(
                  \E i \in 1..Len(obj.items) : NonIntegral(obj.items[i])))

\* C9 amended: the contains_float flag of a NumberNode is set iff one of the
\* numbers it summarises is a float, integral (1.0) or not; the merge of two
\* NumberNodes has the disjunction of their flags.
C9_FlagIffFloat ==
    Inferred =>
        /\ IsNumber(obj) => node = NumberNode(IsFloat(obj))
        /\ NumbersOnly(obj) =>
              node = ArrayNode(NumberNode(
                  \E i \in 1..Len(obj.items) : IsFloat(obj.items[i])))

\* an array of an int and of the float 1.0 inferred: the flag is set
C9_Witness ==
    /\ Inferred
    /\ obj = PyList(<<PyInt(1), PyFloat(1, 0)>>)
    /\ node = ArrayNode(NumberNode(TRUE))

(***************************************************************************)
(* The fall back of the sum of two KeyIndexedArrayNodes, under SpecMerge   *)
(***************************************************************************)
\* C11: the sum of two KeyIndexedArrayNodes whose value nodes merge is the
\* KeyIndexedArrayNode of the union of the keys and of the merged value node;
\* when the value nodes do not merge it is the sum of the two converted
\* ObjectNodes, and fails only if that sum fails too.
C11_MapMergeFallsBack ==
    (Merged /\ lhs.t = "KEY_INDEXED_ARRAY" /\ rhs.t = "KEY_INDEXED_ARRAY") =>
        LET value_node == Add(lhs.value_node, rhs.value_node)
        IN  IF Raised(value_node)
            THEN result = Add(to_object_node(lhs), to_object_node(rhs))
            ELSE result = KeyIndexedArrayNode(lhs.keys \cup rhs.keys, value_node)

(***************************************************************************)
(* The failures of the values inside an input, under Spec                  *)
(***************************************************************************)
\* some value inside o, or o itself, is of no JSON kind
RECURSIVE HasUnclassifiable(_)
HasUnclassifiable(o) ==
    CASE o.py = "list" -> \E i \in 1..Len(o.items) : HasUnclassifiable(o.items[i])
      [] o.py = "dict" -> \E i \in 1..Len(o.pairs) : HasUnclassifiable(o.pairs[i][2])
      [] OTHER -> Raised(KindOf(o))

\* the paths from o to the values of no JSON kind inside it
RECURSIVE UnclassifiablePaths(_)
UnclassifiablePaths(o) ==
    CASE o.py = "list" ->
            UNION {{<<"ARRAY_ELEMENT">> \o p : p \in UnclassifiablePaths(o.items[i])} :
                     i \in 1..Len(o.items)}
      [] o.py = "dict" ->
            UNION {{<<o.pairs[i][1]>> \o p : p \in UnclassifiablePaths(o.pairs[i][2])} :
                     i \in 1..Len(o.pairs)}
      [] OTHER -> IF Raised(KindOf(o)) THEN {<<>>} ELSE {}

\* the path from o to the first value of no JSON kind in document order
RECURSIVE FirstUnclassifiable(_)
FirstUnclassifiable(o) ==
    LET first(n, has(_)) == CHOOSE i \in 1..n : has(i) /\ \A j \in 1..(i - 1) : ~has(j)
    IN  CASE o.py = "list" ->
                LET has(i) == HasUnclassifiable(o.items[i])
                    i == first(Len(o.items), has)
                IN  <<"ARRAY_ELEMENT">> \o FirstUnclassifiable(o.items[i])
          [] o.py = "dict" ->
                LET has(i) == HasUnclassifiable(o.pairs[i][2])
                    i == first(Len(o.pairs), has)
                IN  <<o.pairs[i][1]>> \o FirstUnclassifiable(o.pairs[i][2])
          [] OTHER -> <<>>

\* some array inside o, or o itself, has elements whose nodes do not merge
RECURSIVE HasClash(_)
HasClash(o) ==
    CASE o.py = "list" ->
            \/ ElementsClash(o)
            \/ \E i \in 1..Len(o.items) : HasClash(o.items[i])
      [] o.py = "dict" -> \E i \in 1..Len(o.pairs) : HasClash(o.pairs[i][2])
      [] OTHER -> FALSE

\* C12 as stated: when some value inside the input is unclassifiable, infer
\* fails with UnrecognizableTypeError, located by the keys and "ARRAY_ELEMENT"
\* tags from the root down to that value.
C12_AlwaysUnrecognizable ==
    (Inferred /\ HasUnclassifiable(obj)) =>
        /\ Raised(node)
        /\ node.exc = "UnrecognizableTypeError"
        /\ node.loc \in UnclassifiablePaths(obj)

\* C12 amended: when some value inside the input is unclassifiable, infer
\* fails, never returning a node; the failure is UnrecognizableTypeError unless
\* the input holds an array whose element nodes do not merge, when it may be
\* that array's IncompatibleNodesError instead; an UnrecognizableTypeError is
\* located by the keys and "ARRAY_ELEMENT" tags from the root down to the first
\* unclassifiable value in document order.
C12_ChildFailureLocated ==
    (Inferred /\ HasUnclassifiable(obj)) =>
        /\ Raised(node)
        /\ node.exc \in {"UnrecognizableTypeError", "IncompatibleNodesError"}
        /\ ~HasClash(obj) => node.exc = "UnrecognizableTypeError"
        /\ node.exc = "UnrecognizableTypeError" => node.loc = FirstUnclassifiable(obj)

\* an unclassifiable value in an array in a field of an object: the failure
\* passed the array and the object, and the attempt at a KeyIndexedArrayNode
C12_Witness ==
    /\ Inferred
    /\ obj = PyDict(<<<<"a", PyList(<<PyComplex>>)>>>>)
    /\ node = [exc |-> "UnrecognizableTypeError", loc |-> <<"a", "ARRAY_ELEMENT">>]

(***************************************************************************)
(* The postorder traversal.  A name is spelled as the sequence of its      *)
(* characters.  What the traversal yields is the pair of a node object and *)
(* a name; the node object is told by its place in the tree, the keys and  *)
(* "value_node" steps from the root to it.                                 *)
(***************************************************************************)
WalkKeys == {"as", "ss"}

\* the characters of a field name
Spell(key) ==
    CASE key = "as" -> <<"a", "s">>
      [] key = "ss" -> <<"s", "s">>

\* str.removesuffix
removesuffix(string, suffix) ==
    IF /\ suffix # <<>>
       /\ Len(string) >= Len(suffix)
       /\ SubSeq(string, Len(string) - Len(suffix) + 1, Len(string)) = suffix
    THEN SubSeq(string, 1, Len(string) - Len(suffix))
    ELSE string

\* a faulty variant: str.rstrip, which removes every trailing character of suffix
RECURSIVE rstrip(_, _)
rstrip(string, suffix) ==
    IF string # <<>> /\ \E i \in 1..Len(suffix) : suffix[i] = string[Len(string)]
    THEN rstrip(SubSeq(string, 1, Len(string) - 1), suffix)
    ELSE string

Yield(self, called, at) == [self |-> self, name |-> called, at |-> at]

RECURSIVE iter_nodes_postorder(_, _, _, _)

BaseNode__iter_nodes_postorder(self, called, at) == <<Yield(self, called, at)>>

\* order: the keys in the order the dict of the fields iterates them
ObjectNode__iter_nodes_postorder(self, called, at, order) ==
    LET keys == SelectSeq(order, LAMBDA key : key \in DOMAIN self.fields)
        below[i \in 0..Len(keys)] ==
            IF i = 0 THEN <<>>
            ELSE below[i - 1] \o
                 iter_nodes_postorder(self.fields[keys[i]][1], Spell(keys[i]),
                                      at \o <<keys[i]>>, order)
    IN  below[Len(keys)] \o <<Yield(self, called, at)>>

ArrayNode_rstrip__iter_nodes_postorder(self, called, at, order) ==
    iter_nodes_postorder(self.value_node, rstrip(called, <<"s">>),
                         at \o <<"value_node">>, order)
    \o <<Yield(self, called, at)>>

ArrayNode__iter_nodes_postorder(self, called, at, order) ==
    iter_nodes_postorder(self.value_node, removesuffix(called, <<"s">>),
                         at \o <<"value_node">>, order)
    \o <<Yield(self, called, at)>>

KeyIndexedArrayNode__iter_nodes_postorder(self, called, at, order) ==
    iter_nodes_postorder(self.value_node, removesuffix(called, <<"s">>),
                         at \o <<"value_node">>, order)
    \o <<Yield(self, called, at)>>

\* list(self.iter_nodes_postorder(called)), self being at the place at
iter_nodes_postorder(self, called, at, order) ==
    CASE self.t = "OBJECT" -> ObjectNode__iter_nodes_postorder(self, called, at, order)
      [] self.t = "ARRAY" -> ArrayNode__iter_nodes_postorder(self, called, at, order)
      [] self.t = "KEY_INDEXED_ARRAY" ->
            KeyIndexedArrayNode__iter_nodes_postorder(self, called, at, order)
      [] OTHER -> BaseNode__iter_nodes_postorder(self, called, at)

(***************************************************************************)
(* A client walks a tree.  The trees: the leaves, and arrays, key indexed  *)
(* arrays and objects of up to MaxNest levels; of the fields of an object  *)
(* at most one holds a tree that is no leaf.                               *)
(***************************************************************************)
WalkLeaves == {AnyNode, NullNode, NumberNode(FALSE)}

WalkEntries(S) == {<<x, FALSE, x = NullNode>> : x \in S \ {AnyNode}}

RECURSIVE Trees(_)
Trees(depth) ==
    IF depth = 0 THEN WalkLeaves
    ELSE LET sub == Trees(depth - 1)
         IN  sub
             \cup {ArrayNode(x) : x \in sub}
             \cup {KeyIndexedArrayNode(IF x = AnyNode THEN {} ELSE {"as"}, x) : x \in sub}
             \cup {ObjectNode(f) :
                     f \in UNION {{g \in [K -> WalkEntries(sub)] :
                                     Cardinality({k \in K : g[k][1] \notin WalkLeaves}) <= 1} :
                                  K \in SUBSET WalkKeys}}

RootNames == {<<>>, <<"s">>, <<"x">>, <<"x", "s">>, <<"x", "s", "s">>}

KeyOrders == {s \in [1..Cardinality(WalkKeys) -> WalkKeys] : Distinct(s)}

InitWalk ==
    /\ obj = Pending
    /\ t = Pending
    /\ node = Pending
    /\ lhs = Pending
    /\ rhs = Pending
    /\ result = Pending
    /\ converted = Pending
    /\ tree \in Trees(MaxNest)
    /\ name \in RootNames
    /\ yielded = Pending

\* list(tree.iter_nodes_postorder(name))
Walk ==
    /\ tree # Pending
    /\ yielded = Pending
    /\ \E order \in KeyOrders :
          yielded' = Return(iter_nodes_postorder(tree, name, <<>>, order))
    /\ UNCHANGED <<obj, t, node, lhs, rhs, result, converted, tree, name>>

NextWalk == Walk

SpecWalk == InitWalk /\ [][NextWalk]_vars

Walked == yielded # Pending

\* the places of the nodes of a tree: the steps from the root to each node
RECURSIVE Places(_)
Places(root) ==
    {<<>>} \cup
    CASE root.t = "OBJECT" ->
            UNION {{<<key>> \o place : place \in Places(root.fields[key][1])} :
                   key \in DOMAIN root.fields}
      [] root.t \in {"ARRAY", "KEY_INDEXED_ARRAY"} ->
            {<<"value_node">> \o place : place \in Places(root.value_node)}
      [] OTHER -> {}

\* the node at a place of a tree
RECURSIVE NodeAt(_, _)
NodeAt(root, place) ==
    IF place = <<>> THEN root
    ELSE IF root.t = "OBJECT" THEN NodeAt(root.fields[Head(place)][1], Tail(place))
    ELSE NodeAt(root.value_node, Tail(place))

ParentOf(place) == SubSeq(place, 1, Len(place) - 1)

OneTrailingSRemoved(called) ==
    IF called # <<>> /\ called[Len(called)] = "s"
    THEN SubSeq(called, 1, Len(called) - 1)
    ELSE called

\* C13: the postorder traversal of a tree yields every node of the tree
\* exactly once, each child before its parent and the root last, with the
\* name it was called with; the name yielded with the node of a field of a
\* Record is the key of the field, and the name yielded with the element
\* node of an Array or a Map is the name yielded with the container less one
\* trailing "s".
C13_Postorder ==
    Walked =>
        LET items == yielded.ret
            n == Len(items)
        IN  /\ n = Cardinality(Places(tree))
            /\ {items[i].at : i \in 1..n} = Places(tree)
            /\ \A i \in 1..n : items[i].self = NodeAt(tree, items[i].at)
            /\ items[n].at = <<>>
            /\ items[n].name = name
            /\ \A i, j \in 1..n :
                  (items[i].at # <<>> /\ items[j].at = ParentOf(items[i].at)) =>
                      /\ i < j
                      /\ items[i].name =
                            IF items[j].self.t = "OBJECT"
                            THEN Spell(items[i].at[Len(items[i].at)])
                            ELSE OneTrailingSRemoved(items[j].name)

\* C13: a Record called "xss" whose field "as" holds an Array of numbers
\* has been walked: the number came as "a", the Array as "as", the Record last
C13_Witness ==
    /\ Walked
    /\ tree = ObjectNode([key \in {"as"} |-> <<ArrayNode(NumberNode(FALSE)), FALSE, FALSE>>])
    /\ name = <<"x", "s", "s">>
    /\ yielded.ret =
          <<Yield(NumberNode(FALSE), <<"a">>, <<"as", "value_node">>),
            Yield(ArrayNode(NumberNode(FALSE)), <<"a", "s">>, <<"as">>),
            Yield(tree, name, <<>>)>>

====
